---- MODULE Spec2Model ----
(***************************************************************************)
(* Product ingestion scripts of "All Tabs":                                *)
(*   RestApiBasedScript.py  ProductAPIUploader.upload_products_from_excel  *)
(*   script.py              per-row INSERT loop into PostgreSQL            *)
(*   new_script.py          bulk INSERT (execute_values) into PostgreSQL   *)
(* One run of one of the three programs is one behaviour; `program` says   *)
(* which one runs.                                                         *)
(***************************************************************************)
EXTENDS Integers, Sequences, FiniteSets, TLC

\* ------------------------------------------------------------------ bounds
MaxRows == 4
MaxBatch == 3

\* ------------------------------------------------------------ cell values
\* A Python value: a spreadsheet cell as pandas hands it over (NaN for a blank
\* cell, a str, a number, or an already-structured list or dict), None, or
\* what a parser returns.  l holds the elements of a list (values again), d
\* the items of a dict (key -> value).  Numbers are integers: int and float
\* results are compared as Python compares them (0 == 0.0, 5 == 5.0).
NaN == [t |-> "nan", s |-> "", n |-> 0, l |-> <<>>, d |-> <<>>]
PyNone == [t |-> "none", s |-> "", n |-> 0, l |-> <<>>, d |-> <<>>]
Str(x) == [t |-> "str", s |-> x, n |-> 0, l |-> <<>>, d |-> <<>>]
Num(x) == [t |-> "int", s |-> "", n |-> x, l |-> <<>>, d |-> <<>>]
Lst(x) == [t |-> "list", s |-> "", n |-> 0, l |-> x, d |-> <<>>]
Dict(f) == [t |-> "dict", s |-> "", n |-> 0, l |-> <<>>, d |-> f]

\* pd.isna on a scalar: True for NaN and for None.
pd_isna(c) == c.t \in {"nan", "none"}

\* `if pd.isna(v) or v == ''` raises ValueError when v is a list of two or
\* more elements: pd.isna returns an array whose truth value is ambiguous.
IsnaRaises(c) == c.t = "list" /\ Len(c.l) >= 2

\* Python str() of a cell value.
IntStr(n) ==
  CASE n = 0 -> "0" [] n = 1 -> "1" [] n = 2 -> "2" [] n = 3 -> "3"
    [] n = 4 -> "4" [] n = 5 -> "5" [] n = 6 -> "6" [] n = 7 -> "7"
    [] n = 8 -> "8" [] n = 9 -> "9" [] OTHER -> "n"

py_str(c) ==
  CASE c.t = "str" -> c.s
    [] c.t = "int" -> IntStr(c.n)
    [] c.t = "nan" -> "nan"
    [] c.t = "none" -> "None"
    [] c.t = "list" -> "[...]"
    [] OTHER -> "{...}"

\* Python truthiness of a str: `not s` is True exactly for the empty string.
Truthy(s) == s /= ""

\* str.strip() and str.lower() on the strings of the input sets.
py_strip(x) ==
  CASE x = " " -> ""
    [] x = "Untitled Product " -> "Untitled Product"
    [] OTHER -> x

py_lower(x) ==
  CASE x = "Untitled Product" -> "untitled product"
    [] x = "Lamp" -> "lamp"
    [] OTHER -> x

\* str.replace(" ", "%20") on the strings of the input sets.
py_replace_space(x) ==
  CASE x = "Wall Lamp" -> "Wall%20Lamp"
    [] OTHER -> x

\* bool(value): None, "", 0, [] and {} are falsy; NaN is a non-zero float and
\* therefore truthy.
py_bool(c) ==
  CASE c.t = "none" -> FALSE
    [] c.t = "nan" -> TRUE
    [] c.t = "str" -> c.s /= ""
    [] c.t = "int" -> c.n /= 0
    [] c.t = "list" -> Len(c.l) > 0
    [] OTHER -> DOMAIN c.d /= {}

\* float(value) / int(value): ok is FALSE when the conversion raises (a str
\* that is not a number, None, a list, a dict).  NaN does not occur as an
\* argument: every caller tests pd.isna first.
py_float(c) ==
  CASE c.t = "int" -> [ok |-> TRUE, n |-> c.n]
    [] c.t = "str" /\ c.s = "5" -> [ok |-> TRUE, n |-> 5]
    [] c.t = "str" /\ c.s = "7" -> [ok |-> TRUE, n |-> 7]
    [] OTHER -> [ok |-> FALSE, n |-> 0]

py_int(c) == py_float(c)

\* value == '' for a cell.
IsEmptyStr(c) == c.t = "str" /\ c.s = ""

\* dict.get(key, default)
DictGet(c, key, default) == IF key \in DOMAIN c.d THEN c.d[key] ELSE default

\* The JSON and Python-literal texts of the input sets.
DimJson == "{\"width\": \"bad\", \"height\": 5, \"depth\": 3}"
DimJsonPartial == "{\"width\": 2, \"height\": \"7\"}"
TagsJson == "[\"a\", \" \"]"
ReviewsJson == "[{\"rating\": 4, \"comment\": \"ok\"}, 7]"
ReviewsJsonBad == "[{\"rating\": \"bad\"}]"
AttachJson == "[{\"attachmentLink\": \"m.pdf\"}]"
MetaJson == "{\"barcode\": \"b1\"}"
MetaLiteral == "{'qrCode': 'q1'}"

Failed == [ok |-> FALSE, v |-> PyNone]
Parsed(x) == [ok |-> TRUE, v |-> x]

\* json.loads(text): ok is FALSE when it raises.
json_loads(x) ==
  CASE x = DimJson ->
         Parsed(Dict([width |-> Str("bad"), height |-> Num(5), depth |-> Num(3)]))
    [] x = DimJsonPartial -> Parsed(Dict([width |-> Num(2), height |-> Str("7")]))
    [] x = TagsJson -> Parsed(Lst(<<Str("a"), Str(" ")>>))
    [] x = ReviewsJson ->
         Parsed(Lst(<<Dict([rating |-> Num(4), comment |-> Str("ok")]), Num(7)>>))
    [] x = ReviewsJsonBad -> Parsed(Lst(<<Dict([rating |-> Str("bad")])>>))
    [] x = AttachJson -> Parsed(Lst(<<Dict([attachmentLink |-> Str("m.pdf")])>>))
    [] x = MetaJson -> Parsed(Dict([barcode |-> Str("b1")]))
    [] x = "5" -> Parsed(Num(5))
    [] x = "7" -> Parsed(Num(7))
    [] OTHER -> Failed

\* ast.literal_eval(text) for a text json.loads rejected.
literal_eval(x) ==
  CASE x = MetaLiteral -> Parsed(Dict([qrCode |-> Str("q1")]))
    [] OTHER -> Failed

\* [item.strip() for item in text.split(',') if item.strip()]
split_commas(x) ==
  CASE x = "a, b" -> <<Str("a"), Str("b")>>
    [] py_strip(x) = "" -> <<>>
    [] OTHER -> <<Str(py_strip(x))>>

\* A row is a pandas Series: a function from the column labels of the sheet
\* to cells.  Series.get(field) yields None for a label the sheet does not
\* have.
HasCol(row, field) == field \in DOMAIN row

RowGet(row, field) == IF HasCol(row, field) THEN row[field] ELSE PyNone

\* ------------------------------------------- RestApiBasedScript.py: coercion
\* safe_get(field, default, str) of transform_row_to_product: an absent column
\* gives str(default), a NaN cell the default, anything else goes through
\* str() -- the empty string included.
safe_get_str(row, field, default) ==
  IF ~HasCol(row, field) THEN default
  ELSE IF pd_isna(row[field]) THEN default
  ELSE py_str(row[field])

\* safe_get(field, default, float) and safe_get(field, default, int): the
\* converter's exception gives the default.
safe_get_float(row, field, default) ==
  IF ~HasCol(row, field) THEN default
  ELSE IF pd_isna(row[field]) THEN default
  ELSE IF py_float(row[field]).ok THEN py_float(row[field]).n
  ELSE default

safe_get_int(row, field, default) ==
  IF ~HasCol(row, field) THEN default
  ELSE IF pd_isna(row[field]) THEN default
  ELSE IF py_int(row[field]).ok THEN py_int(row[field]).n
  ELSE default

\* parse_json_field: {} for a blank cell, json.loads then ast.literal_eval for
\* a str, a dict passes through, anything else gives {}.
parse_json_field(c) ==
  IF pd_isna(c) \/ IsEmptyStr(c) THEN Dict(<<>>)
  ELSE IF c.t = "str"
       THEN IF json_loads(c.s).ok THEN json_loads(c.s).v
            ELSE IF literal_eval(c.s).ok THEN literal_eval(c.s).v
            ELSE Dict(<<>>)
  ELSE IF c.t = "dict" THEN c
  ELSE Dict(<<>>)

\* parse_list_field: [] for a blank cell; a str is a JSON array (a JSON value
\* that is not a list is wrapped) or comma separated; a list passes through;
\* anything else gives [].
parse_list_field(c) ==
  IF pd_isna(c) \/ IsEmptyStr(c) THEN <<>>
  ELSE IF c.t = "str"
       THEN IF json_loads(c.s).ok
              THEN IF json_loads(c.s).v.t = "list" THEN json_loads(c.s).v.l
                   ELSE <<json_loads(c.s).v>>
              ELSE split_commas(c.s)
  ELSE IF c.t = "list" THEN c.l
  ELSE <<>>

default_dimensions == [width |-> 0, height |-> 0, depth |-> 0]

\* The three float() conversions of parse_dimensions, made separately.
DimKey(dv, key) ==
  IF py_float(DictGet(dv, key, Num(0))).ok
    THEN py_float(DictGet(dv, key, Num(0))).n
    ELSE 0

\* result.update({...float(dimensions.get(key, 0))...}) inside one try block:
\* a float() that raises for any key gives default_dimensions.
DimensionsOf(dv) ==
  IF \A key \in {"width", "height", "depth"} :
       py_float(DictGet(dv, key, Num(0))).ok
    THEN [width |-> DimKey(dv, "width"), height |-> DimKey(dv, "height"),
          depth |-> DimKey(dv, "depth")]
    ELSE default_dimensions

\* parse_dimensions: a str goes through json.loads only.
parse_dimensions(c) ==
  IF pd_isna(c) \/ IsEmptyStr(c) THEN default_dimensions
  ELSE IF c.t = "str"
       THEN IF json_loads(c.s).ok /\ json_loads(c.s).v.t = "dict"
              THEN DimensionsOf(json_loads(c.s).v)
              ELSE default_dimensions
  ELSE IF c.t = "dict" THEN DimensionsOf(c)
  ELSE default_dimensions

\* `if str(x).strip()` of the list comprehensions.
NonBlank(v) == py_strip(py_str(v)) /= ""

\* parse_tags: [{"tag": str(tag).strip()} for tag in tags_list if ...]
parse_tags(c) ==
  IF pd_isna(c) \/ IsEmptyStr(c) THEN <<>>
  ELSE [j \in 1..Len(SelectSeq(parse_list_field(c), NonBlank)) |->
          [tag |-> py_strip(py_str(SelectSeq(parse_list_field(c), NonBlank)[j]))]]

\* parse_color_options
parse_color_options(c) ==
  IF pd_isna(c) \/ IsEmptyStr(c) THEN <<>>
  ELSE [j \in 1..Len(SelectSeq(parse_list_field(c), NonBlank)) |->
          [colorOption |->
             py_strip(py_str(SelectSeq(parse_list_field(c), NonBlank)[j]))]]

\* datetime.now().strftime("%Y-%m-%d")
Today == "today"

IsDict(v) == v.t = "dict"

\* parse_reviews: only dict elements are kept; an int() that raises gives [].
parse_reviews(c) ==
  IF pd_isna(c) \/ IsEmptyStr(c) THEN <<>>
  ELSE IF parse_json_field(c).t /= "list" THEN <<>>
  ELSE LET kept == SelectSeq(parse_json_field(c).l, IsDict)
       IN IF \E j \in 1..Len(kept) : ~py_int(DictGet(kept[j], "rating", Num(0))).ok
            THEN <<>>
            ELSE [j \in 1..Len(kept) |->
                   [rating |-> py_int(DictGet(kept[j], "rating", Num(0))).n,
                    comment |-> py_str(DictGet(kept[j], "comment", Str(""))),
                    date |-> py_str(DictGet(kept[j], "date", Str(Today))),
                    reviewerName |->
                      py_str(DictGet(kept[j], "reviewerName", Str("Anonymous"))),
                    reviewerEmail |->
                      py_str(DictGet(kept[j], "reviewerEmail", Str("")))]]

\* parse_attachments
parse_attachments(c) ==
  IF pd_isna(c) \/ IsEmptyStr(c) THEN <<>>
  ELSE IF parse_json_field(c).t /= "list" THEN <<>>
  ELSE LET kept == SelectSeq(parse_json_field(c).l, IsDict)
       IN [j \in 1..Len(kept) |->
            [attachmentType |->
               py_str(DictGet(kept[j], "attachmentType", Str("document"))),
             attachmentLink |->
               py_str(DictGet(kept[j], "attachmentLink", Str("")))]]

default_meta == [barcode |-> "", qrCode |-> ""]

\* parse_meta
parse_meta(c) ==
  IF pd_isna(c) \/ IsEmptyStr(c) THEN default_meta
  ELSE IF parse_json_field(c).t = "dict"
       THEN [barcode |-> py_str(DictGet(parse_json_field(c), "barcode", Str(""))),
             qrCode |-> py_str(DictGet(parse_json_field(c), "qrCode", Str("")))]
  ELSE default_meta

ImageBase ==
  "https://raw.githubusercontent.com/rakeshsharma869/Extro_related_stuffs/refs/heads/master/All%20Tabs/"

\* The fallback image URL built from category and sku.
FallbackImage(category, sku) ==
  ImageBase \o py_replace_space(py_strip(py_str(category))) \o "/"
    \o py_strip(py_str(sku)) \o ".png"

\* if len(images_list) == 0 and category and sku
NeedsFallback(images_list, category, sku) ==
  Len(images_list) = 0 /\ py_bool(category) /\ py_bool(sku)

\* parse_images: everything is inside the try block, so the ValueError of
\* parse_list_field's guard on a list cell gives [].
parse_images(c, category, sku) ==
  IF IsnaRaises(c) THEN <<>>
  ELSE LET images_list ==
             IF NeedsFallback(parse_list_field(c), category, sku)
               THEN <<Str(FallbackImage(category, sku))>>
               ELSE parse_list_field(c)
       IN [j \in 1..Len(SelectSeq(images_list, NonBlank)) |->
            [imageUrl |-> py_strip(py_str(SelectSeq(images_list, NonBlank)[j]))]]

\* The columns read through safe_get and the columns whose parser tests
\* `pd.isna(v) or v == ''` in front of its try block.
SafeGetColumns ==
  {"Title", "Description", "Category", "SubCategory", "Price",
   "Discount Percentage", "Rating", "Stock", "Brand", "Sku", "Weight",
   "Warranty Information", "Shipping Information", "Availability Status",
   "Return Policy", "Minimum Order Quantity", "Thumbnail", "Version"}

GuardedColumns ==
  {"Dimensions", "Tags", "Reviews", "Color Options", "Attachments", "Meta"}

\* transform_row_to_product raises when pd.isna gets a list of two or more
\* elements in safe_get (line 332) or in a parser's guard (lines 129, 163,
\* 186, 248, 268, 302).
TransformRaises(row) ==
  \E f \in SafeGetColumns \cup GuardedColumns : IsnaRaises(RowGet(row, f))

transform_row_to_product(row) ==
  [title |-> safe_get_str(row, "Title", ""),
   description |-> safe_get_str(row, "Description", ""),
   category |-> safe_get_str(row, "Category", ""),
   subcategory |-> safe_get_str(row, "SubCategory", ""),
   price |-> safe_get_float(row, "Price", 0),
   discountPercentage |-> safe_get_float(row, "Discount Percentage", 0),
   rating |-> safe_get_float(row, "Rating", 0),
   stock |-> safe_get_int(row, "Stock", 0),
   brand |-> safe_get_str(row, "Brand", ""),
   sku |-> safe_get_str(row, "Sku", ""),
   weight |-> safe_get_float(row, "Weight", 0),
   warrantyInformation |-> safe_get_str(row, "Warranty Information", ""),
   shippingInformation |-> safe_get_str(row, "Shipping Information", ""),
   availabilityStatus |-> safe_get_str(row, "Availability Status", "In Stock"),
   returnPolicy |-> safe_get_str(row, "Return Policy", ""),
   minimumOrderQuantity |-> safe_get_int(row, "Minimum Order Quantity", 1),
   thumbnail |-> safe_get_str(row, "Thumbnail", ""),
   version |-> safe_get_str(row, "Version", "1.0"),
   dimensions |-> parse_dimensions(RowGet(row, "Dimensions")),
   tags |-> parse_tags(RowGet(row, "Tags")),
   reviews |-> parse_reviews(RowGet(row, "Reviews")),
   images |-> parse_images(RowGet(row, "Images"), RowGet(row, "Category"),
                           RowGet(row, "Sku")),
   colorOptions |-> parse_color_options(RowGet(row, "Color Options")),
   attachments |-> parse_attachments(RowGet(row, "Attachments")),
   meta |-> parse_meta(RowGet(row, "Meta"))]

NoProduct == [title |-> "", tags |-> <<>>]

\* ------------------------------------------------ RestApiBasedScript.py: sink
\* What session.post can do: answer with an HTTP status, or raise.
Http(code) == [kind |-> "http", status |-> code]
Exc(name) == [kind |-> name, status |-> 0]
NoResponse == [kind |-> "none", status |-> 0]

Responses ==
  {Http(200), Http(201), Http(204), Http(400), Http(500),
   Exc("Timeout"), Exc("ConnectionError"), Exc("TypeError")}

\* Variant: every status below 300 counts as success.
post_product_2xx(r) ==
  [raises |-> FALSE,
   ret    |-> IF r.kind = "http" THEN r.status < 300 ELSE FALSE]

\* post_product: True for status 200/201, False for every other status, for a
\* requests.exceptions.RequestException and for any other Exception.
\* raises says whether an exception leaves post_product.
post_product(r) ==
  [raises |-> FALSE,
   ret    |-> IF r.kind = "http" THEN r.status \in {200, 201} ELSE FALSE]

\* Variant: the slice stops one row early.
iloc_short(n, i, j) ==
  [p \in 1..((IF j - 1 < n THEN j - 1 ELSE n) - i) |-> i + p]

\* df.iloc[i:i + batch_size] as the sequence of (1-based) row positions.
iloc(n, i, j) == [p \in 1..((IF j < n THEN j ELSE n) - i) |-> i + p]

\* ------------------------------------------------------------------- state
VARIABLES
  program,      \* "rest" | "script" | "new_script": the script that runs
  input,        \* the spreadsheet: [readable, rows]
  batch_size,   \* batch_size argument of upload_products_from_excel
  pc,           \* position of the running script
  df,           \* the DataFrame rows once read
  i,            \* next value of range(0, len(df), batch_size)
  batch_df,     \* row positions of the current batch
  k,            \* position in batch_df of the row being processed
  product_data, \* the normalized record of the current row
  stats,        \* the statistics dict
  response,     \* what session.post did for the current row
  ok,           \* return value of post_product for the current row
  raised,       \* exception that left the run, "" when none
  posted,       \* session.post calls so far: [row, ok]
  batches,      \* "Processing batch" log lines: [no, size]
  started,      \* row positions in the order their processing began
  outcome,      \* per finished row, the log line it ended with
  values,       \* new_script.py: row positions handed to execute_values
  txn,          \* rows inserted in the open database transaction
  committed,    \* rows committed to the products table
  executed      \* rows handed to cursor.execute / execute_values so far

restvars == <<batch_size, i, batch_df, product_data, stats, response, ok,
              posted, batches>>

dbvars == <<values, txn, committed, executed>>

vars == <<program, input, batch_size, pc, df, i, batch_df, k, product_data,
          stats, response, ok, raised, posted, batches, started, outcome,
          values, txn, committed, executed>>

NoStats == [total_products |-> 0, successful_uploads |-> 0,
            failed_uploads |-> 0, errors |-> <<>>]

\* ------------------------------------------------------------------ inputs
Seqs(S, n) == UNION {[1..m -> S] : m \in 0..n}

TitleCells == {NaN, Str(""), Str("Lamp"), Num(0)}

\* Rows of a sheet with a Title column, and of a sheet without one.
RestRows ==
  {[Title |-> c, Tags |-> NaN] : c \in TitleCells}
    \cup {[Title |-> Str("Lamp"), Tags |-> Lst(<<Str("a"), Str("b")>>)]}

RestRowsNoTitle == {[Tags |-> NaN], [Tags |-> Lst(<<Str("a")>>)]}

RestInputs ==
  {[readable |-> FALSE, rows |-> <<>>]}
    \cup {[readable |-> TRUE, rows |-> r] : r \in Seqs(RestRows, MaxRows)}
    \cup {[readable |-> TRUE, rows |-> r] : r \in Seqs(RestRowsNoTitle, MaxRows)}

InitRest ==
  /\ program = "rest"
  /\ input \in RestInputs
  /\ batch_size \in 1..MaxBatch
  /\ pc = "start"
  /\ df = <<>>
  /\ i = 0
  /\ batch_df = <<>>
  /\ k = 0
  /\ product_data = NoProduct
  /\ stats = NoStats
  /\ response = NoResponse
  /\ ok = FALSE
  /\ raised = ""
  /\ posted = <<>>
  /\ batches = <<>>
  /\ started = <<>>
  /\ outcome = <<>>
  /\ values = <<>>
  /\ txn = {}
  /\ committed = {}
  /\ executed = <<>>

\* ------------------------------ RestApiBasedScript.py: the upload, by steps
\* read_excel_data and the initialisation of stats; a read error is logged
\* and re-raised, and the outer handler re-raises it to the caller.
ReadExcel ==
  /\ program = "rest" /\ pc = "start"
  /\ IF input.readable
       THEN /\ df' = input.rows
            /\ stats' = [NoStats EXCEPT !.total_products = Len(input.rows)]
            /\ pc' = "batch"
            /\ raised' = raised
       ELSE /\ pc' = "raised"
            /\ raised' = "ReadError"
            /\ UNCHANGED <<df, stats>>
  /\ UNCHANGED dbvars
  /\ UNCHANGED <<program, input, batch_size, i, batch_df, k, product_data,
                 response, ok, posted, batches, started, outcome>>

\* for i in range(0, len(df), batch_size): batch_df = df.iloc[i:i+batch_size]
BatchLoop ==
  /\ program = "rest" /\ pc = "batch"
  /\ IF i < Len(df)
       THEN /\ batch_df' = iloc(Len(df), i, i + batch_size)
            /\ batches' = Append(batches,
                  [no |-> (i \div batch_size) + 1,
                   size |-> Len(iloc(Len(df), i, i + batch_size))])
            /\ i' = i + batch_size
            /\ k' = 1
            /\ pc' = "row"
       ELSE /\ pc' = "report"
            /\ UNCHANGED <<batch_df, batches, i, k>>
  /\ UNCHANGED dbvars
  /\ UNCHANGED <<program, input, batch_size, df, product_data, stats,
                 response, ok, raised, posted, started, outcome>>

\* The inner loop moves to the next row of the batch, or the batch is over.
NextRow ==
  /\ IF k < Len(batch_df)
       THEN k' = k + 1 /\ pc' = "row"
       ELSE k' = 0 /\ pc' = "batch"
  /\ product_data' = NoProduct
  /\ response' = NoResponse
  /\ ok' = FALSE

\* product_data = self.transform_row_to_product(row)
TransformRow ==
  /\ program = "rest" /\ pc = "row"
  /\ started' = Append(started, batch_df[k])
  /\ IF TransformRaises(df[batch_df[k]])
       THEN pc' = "except" /\ product_data' = product_data
       ELSE pc' = "gate"
            /\ product_data' = transform_row_to_product(df[batch_df[k]])
  /\ UNCHANGED dbvars
  /\ UNCHANGED <<program, input, batch_size, df, i, batch_df, k, stats,
                 response, ok, raised, posted, batches, outcome>>

\* Variant: the gate tests `is not None` instead of truthiness; title is
\* always a str, so every row passes.
GatePasses_notnone(product) == TRUE

\* if not product_data.get("title"): failed_uploads += 1; continue
GatePasses(product) == Truthy(product.title)

\* Variant: a skipped row is not counted.
SkipCount_none(st) == st

SkipCount(st) == [st EXCEPT !.failed_uploads = @ + 1]

ValidateTitle ==
  /\ program = "rest" /\ pc = "gate"
  /\ IF GatePasses(product_data)
       THEN /\ pc' = "post"
            /\ UNCHANGED <<stats, outcome, k, product_data, response, ok>>
       ELSE /\ stats' = SkipCount(stats)
            /\ outcome' = Append(outcome, "skipped")
            /\ NextRow
  /\ UNCHANGED dbvars
  /\ UNCHANGED <<program, input, batch_size, df, i, batch_df, raised,
                 posted, batches, started>>

\* Variant: a failed session.post is repeated once.
PostProduct_retry ==
  /\ program = "rest" /\ pc = "post"
  /\ \E r \in Responses :
       /\ response' = r
       /\ ok' = post_product(r).ret
       /\ posted' = IF post_product(r).ret
            THEN Append(posted, [row |-> batch_df[k], ok |-> TRUE])
            ELSE posted \o <<[row |-> batch_df[k], ok |-> FALSE],
                             [row |-> batch_df[k], ok |-> FALSE]>>
       /\ pc' = IF post_product(r).raises THEN "except" ELSE "count"
  /\ UNCHANGED dbvars
  /\ UNCHANGED <<program, input, batch_size, df, i, batch_df, k,
                 product_data, stats, raised, batches, started, outcome>>

\* self.post_product(product_data): one session.post call
PostProduct ==
  /\ program = "rest" /\ pc = "post"
  /\ \E r \in Responses :
       /\ response' = r
       /\ ok' = post_product(r).ret
       /\ posted' = Append(posted, [row |-> batch_df[k], ok |-> post_product(r).ret])
       /\ pc' = IF post_product(r).raises THEN "except" ELSE "count"
  /\ UNCHANGED dbvars
  /\ UNCHANGED <<program, input, batch_size, df, i, batch_df, k,
                 product_data, stats, raised, batches, started, outcome>>

\* Variant: a rejected delivery leaves the batch loop (break).
CountResult_break ==
  /\ program = "rest" /\ pc = "count"
  /\ stats' = IF ok THEN [stats EXCEPT !.successful_uploads = @ + 1]
                     ELSE [stats EXCEPT !.failed_uploads = @ + 1]
  /\ outcome' = Append(outcome, IF ok THEN "posted" ELSE "failed")
  /\ IF ok THEN NextRow
           ELSE /\ k' = 0 /\ pc' = "batch" /\ product_data' = NoProduct
                /\ response' = NoResponse /\ ok' = FALSE
  /\ UNCHANGED dbvars
  /\ UNCHANGED <<program, input, batch_size, df, i, batch_df, raised,
                 posted, batches, started>>

\* successful_uploads += 1 / failed_uploads += 1 on post_product's result
CountResult ==
  /\ program = "rest" /\ pc = "count"
  /\ stats' = IF ok THEN [stats EXCEPT !.successful_uploads = @ + 1]
                     ELSE [stats EXCEPT !.failed_uploads = @ + 1]
  /\ outcome' = Append(outcome, IF ok THEN "posted" ELSE "failed")
  /\ NextRow
  /\ UNCHANGED dbvars
  /\ UNCHANGED <<program, input, batch_size, df, i, batch_df, raised,
                 posted, batches, started>>

\* Variant: the handler records the message but does not count the row.
RowException_nocount ==
  /\ program = "rest" /\ pc = "except"
  /\ stats' = [stats EXCEPT !.errors = Append(@, batch_df[k])]
  /\ outcome' = Append(outcome, "error")
  /\ NextRow
  /\ UNCHANGED dbvars
  /\ UNCHANGED <<program, input, batch_size, df, i, batch_df, raised,
                 posted, batches, started>>

\* except Exception as e: failed_uploads += 1; errors.append(error_msg)
RowException ==
  /\ program = "rest" /\ pc = "except"
  /\ stats' = [stats EXCEPT !.failed_uploads = @ + 1,
                            !.errors = Append(@, batch_df[k])]
  /\ outcome' = Append(outcome, "error")
  /\ NextRow
  /\ UNCHANGED dbvars
  /\ UNCHANGED <<program, input, batch_size, df, i, batch_df, raised,
                 posted, batches, started>>

\* The final statistics: the success rate divides by total_products; the
\* ZeroDivisionError reaches the outer handler, which re-raises it.
FinalStats ==
  /\ program = "rest" /\ pc = "report"
  /\ IF stats.total_products = 0
       THEN pc' = "raised" /\ raised' = "ZeroDivisionError"
       ELSE pc' = "done" /\ raised' = raised
  /\ UNCHANGED dbvars
  /\ UNCHANGED <<program, input, batch_size, df, i, batch_df, k,
                 product_data, stats, response, ok, posted, batches,
                 started, outcome>>

NextRest ==
  \/ ReadExcel
  \/ BatchLoop
  \/ TransformRow
  \/ ValidateTitle
  \/ PostProduct
  \/ CountResult
  \/ RowException
  \/ FinalStats

\* ----------------------------------------------------- script.py, by steps
\* Truthiness of a raw cell after row.where(pd.notnull(row), None): None, ""
\* and 0 are falsy.
py_truthy(c) ==
  CASE c.t \in {"nan", "none"} -> FALSE
    [] c.t = "str" -> c.s /= ""
    [] c.t = "int" -> c.n /= 0
    [] OTHER -> Len(c.l) > 0

\* row_dict.get("title"): None when the sheet has no column of that label.
ScriptGatePasses(row) == py_truthy(RowGet(row, "title"))

\* The table rejects a row (constraint or type check) when the INSERT of that
\* row raises.
Rejected(in, p) == p \in in.rejects

ScriptRows == {[title |-> c] : c \in TitleCells}

ScriptRowsAsSheet == {[Title |-> c] : c \in {NaN, Str("Lamp")}}

DbInputs(RowSet) ==
  {[readable |-> TRUE, rows |-> r, rejects |-> b] :
      r \in Seqs(RowSet, MaxRows), b \in SUBSET (1..MaxRows)}

ScriptInputs ==
  {[readable |-> FALSE, rows |-> <<>>, rejects |-> {}]}
    \cup {in \in DbInputs(ScriptRows) \cup DbInputs(ScriptRowsAsSheet) :
            in.rejects \subseteq 1..Len(in.rows)}

InitDb(prog, inputs) ==
  /\ program = prog
  /\ input \in inputs
  /\ batch_size = 1
  /\ pc = "start"
  /\ df = <<>>
  /\ i = 0
  /\ batch_df = <<>>
  /\ k = 0
  /\ product_data = NoProduct
  /\ stats = NoStats
  /\ response = NoResponse
  /\ ok = FALSE
  /\ raised = ""
  /\ posted = <<>>
  /\ batches = <<>>
  /\ started = <<>>
  /\ outcome = <<>>
  /\ values = <<>>
  /\ txn = {}
  /\ committed = {}
  /\ executed = <<>>

InitScript == InitDb("script", ScriptInputs)

\* df = pd.read_excel(...): at module level, an error ends the script with
\* the exception.  The database is taken to be reachable (psycopg2.connect).
ScriptRead ==
  /\ program = "script" /\ pc = "start"
  /\ IF input.readable
       THEN df' = input.rows /\ pc' = "loop" /\ k' = 1 /\ raised' = raised
       ELSE pc' = "raised" /\ raised' = "ReadError" /\ UNCHANGED <<df, k>>
  /\ UNCHANGED <<program, input, started, outcome>>
  /\ UNCHANGED restvars
  /\ UNCHANGED dbvars

\* for index, row in df.iterrows(): skip rows with empty title
ScriptRow ==
  /\ program = "script" /\ pc = "loop" /\ k <= Len(df)
  /\ started' = Append(started, k)
  /\ IF ScriptGatePasses(df[k])
       THEN pc' = "insert" /\ UNCHANGED <<k, outcome>>
       ELSE pc' = "loop" /\ k' = k + 1 /\ outcome' = Append(outcome, "skipped")
  /\ UNCHANGED <<program, input, df, raised>>
  /\ UNCHANGED restvars
  /\ UNCHANGED dbvars

\* cursor.execute(insert_query, values)
ScriptExecute ==
  /\ program = "script" /\ pc = "insert"
  /\ executed' = Append(executed, k)
  /\ IF Rejected(input, k)
       THEN pc' = "rollback" /\ txn' = txn
       ELSE pc' = "commit" /\ txn' = txn \cup {k}
  /\ UNCHANGED <<program, input, df, k, raised, started, outcome, values,
                 committed>>
  /\ UNCHANGED restvars

\* except Exception: conn.rollback()
ScriptRollback ==
  /\ program = "script" /\ pc = "rollback"
  /\ txn' = {}
  /\ outcome' = Append(outcome, "failed")
  /\ k' = k + 1
  /\ pc' = "loop"
  /\ UNCHANGED <<program, input, df, raised, started, values, committed,
                 executed>>
  /\ UNCHANGED restvars

\* Variant: the commit after a successful INSERT is missing.
ScriptCommit_missing ==
  /\ program = "script" /\ pc = "commit"
  /\ UNCHANGED <<committed, txn>>
  /\ outcome' = Append(outcome, "inserted")
  /\ k' = k + 1
  /\ pc' = "loop"
  /\ UNCHANGED <<program, input, df, raised, started, values, executed>>
  /\ UNCHANGED restvars

\* else: conn.commit()
ScriptCommit ==
  /\ program = "script" /\ pc = "commit"
  /\ committed' = committed \cup txn
  /\ txn' = {}
  /\ outcome' = Append(outcome, "inserted")
  /\ k' = k + 1
  /\ pc' = "loop"
  /\ UNCHANGED <<program, input, df, raised, started, values, executed>>
  /\ UNCHANGED restvars

\* cursor.close(); conn.close(): an open transaction is discarded
ScriptClose ==
  /\ program = "script" /\ pc = "loop" /\ k > Len(df)
  /\ txn' = {}
  /\ pc' = "done"
  /\ UNCHANGED <<program, input, df, k, raised, started, outcome, values,
                 committed, executed>>
  /\ UNCHANGED restvars

NextScript ==
  \/ ScriptRead
  \/ ScriptRow
  \/ ScriptExecute
  \/ ScriptRollback
  \/ ScriptCommit
  \/ ScriptClose

\* ------------------------------------------------- new_script.py, by steps
sku_source_column == "Products ID"

default_title == "Untitled Product"

\* Fill missing values with defaults (title column): a sheet without a Title
\* column gets a column of None first.
FilledTitle(row) ==
  IF ~HasCol(row, "Title") THEN default_title
  ELSE IF pd_isna(row["Title"]) THEN default_title
  ELSE IF py_lower(py_strip(py_str(row["Title"]))) \in {"", "nan"}
       THEN default_title
  ELSE py_str(row["Title"])

\* Drop rows where title is missing or default.
KeepsRow(row) ==
  /\ py_lower(py_strip(FilledTitle(row))) /= py_lower(default_title)
  /\ py_strip(FilledTitle(row)) /= ""

RECURSIVE KeptFrom(_, _)
KeptFrom(rows, p) ==
  IF p > Len(rows) THEN <<>>
  ELSE IF KeepsRow(rows[p]) THEN <<p>> \o KeptFrom(rows, p + 1)
  ELSE KeptFrom(rows, p + 1)

\* Variant: the check for the sku source column is missing.
PrepareFails_nocheck(in) ==
  \/ ~in.readable
  \/ KeptFrom(in.rows, 1) = <<>>

\* The "load and clean data" block ends in exit(): unreadable sheet, missing
\* sku source column, or no row left after the drop.
PrepareFails(in) ==
  \/ ~in.readable
  \/ \E p \in 1..Len(in.rows) : ~HasCol(in.rows[p], sku_source_column)
  \/ KeptFrom(in.rows, 1) = <<>>

Range(q) == {q[j] : j \in 1..Len(q)}

NewTitleCells == {NaN, Str(" "), Str("Lamp"), Str("Untitled Product ")}

NewRows ==
  {("Products ID" :> Num(1)) @@ ("Title" :> c) : c \in NewTitleCells}

NewRowsNoSku == {[Title |-> c] : c \in {NaN, Str("Lamp")}}

NewRowsNoTitle == {("Products ID" :> Num(1))}

NewInputs ==
  {[readable |-> FALSE, rows |-> <<>>, rejects |-> {}]}
    \cup {in \in DbInputs(NewRows) \cup DbInputs(NewRowsNoSku)
                  \cup DbInputs(NewRowsNoTitle) :
            in.rejects \subseteq 1..Len(in.rows)}

InitNew == InitDb("new_script", NewInputs)

\* try: read, check the sku source column, fill, drop, build values
\* except Exception: print, exit()
NewPrepare ==
  /\ program = "new_script" /\ pc = "start"
  /\ IF PrepareFails(input)
       THEN pc' = "exited" /\ UNCHANGED <<df, values>>
       ELSE /\ pc' = "insert"
            /\ df' = input.rows
            /\ values' = KeptFrom(input.rows, 1)
  /\ UNCHANGED <<program, input, k, raised, started, outcome, txn,
                 committed, executed>>
  /\ UNCHANGED restvars

\* execute_values(cursor, insert_query, values): one transaction for all rows;
\* it raises when the table rejects any of them.
NewExecute ==
  /\ program = "new_script" /\ pc = "insert"
  /\ executed' = executed \o values
  /\ IF \E j \in 1..Len(values) : Rejected(input, values[j])
       THEN pc' = "close" /\ txn' = txn
       ELSE pc' = "commit" /\ txn' = txn \cup Range(values)
  /\ UNCHANGED <<program, input, df, k, raised, started, outcome, values,
                 committed>>
  /\ UNCHANGED restvars

\* conn.commit()
NewCommit ==
  /\ program = "new_script" /\ pc = "commit"
  /\ committed' = committed \cup txn
  /\ txn' = {}
  /\ pc' = "close"
  /\ UNCHANGED <<program, input, df, k, raised, started, outcome, values,
                 executed>>
  /\ UNCHANGED restvars

\* finally: cursor.close(); conn.close()
NewClose ==
  /\ program = "new_script" /\ pc = "close"
  /\ txn' = {}
  /\ pc' = "done"
  /\ UNCHANGED <<program, input, df, k, raised, started, outcome, values,
                 committed, executed>>
  /\ UNCHANGED restvars

NextNew ==
  \/ NewPrepare
  \/ NewExecute
  \/ NewCommit
  \/ NewClose

Init == InitRest \/ InitScript \/ InitNew

Next == NextRest \/ NextScript \/ NextNew

Spec == Init /\ [][Next]_vars

\* ------------------------- transform_row_to_product applied to a single row
\* Marks a column (or a dict key) that the row does not have.
Absent == [t |-> "absent", s |-> "", n |-> 0, l |-> <<>>, d |-> <<>>]

Opt(field, c) == IF c = Absent THEN <<>> ELSE (field :> c)

Columns == SafeGetColumns \cup GuardedColumns \cup {"Images"}

\* Blank, garbage, numeric and already-structured cells.
GarbageCells ==
  {NaN, Str(""), Str(" "), Str("bad"), Str("5"), Num(5), Str("a, b"),
   Lst(<<Str("a")>>), Lst(<<Str("a"), Str("b")>>), Dict(<<>>)}

\* Rows with a single column, and the row without any column.
SingleRows == {Opt(f, c) : f \in Columns, c \in GarbageCells \cup {Absent}}

ImageRows ==
  {Opt("Images", im) @@ Opt("Category", ca) @@ Opt("Sku", sk) :
     im \in {Absent, NaN, Str(""), Str(" "), Str("u1.png")},
     ca \in {Absent, NaN, Str(""), Str("Lighting"), Str("Wall Lamp")},
     sk \in {Absent, NaN, Str(""), Str("A1")}}

DimValues == {Absent, Num(5), Num(3), Str("bad"), Str("7")}

DimDicts ==
  {Dict(Opt("width", w) @@ Opt("height", h) @@ Opt("depth", dp)) :
     w \in DimValues, h \in DimValues, dp \in DimValues}

DimRows ==
  {[Dimensions |-> c] : c \in DimDicts \cup {Str(DimJson), Str(DimJsonPartial)}}

JsonRows ==
  {[Tags |-> Str(TagsJson)], [Reviews |-> Str(ReviewsJson)],
   [Reviews |-> Str(ReviewsJsonBad)], [Attachments |-> Str(AttachJson)],
   [Meta |-> Str(MetaJson)], [Meta |-> Str(MetaLiteral)],
   [Meta |-> Dict([barcode |-> Num(5)])]}

NormalizeRows == SingleRows \cup ImageRows \cup DimRows \cup JsonRows

NormalizeInputs == {[readable |-> TRUE, rows |-> <<r>>] : r \in NormalizeRows}

InitNormalize == InitDb("normalize", NormalizeInputs)

\* One call of transform_row_to_product(row): it returns the product or the
\* ValueError of a pd.isna test leaves it.
Normalize ==
  /\ program = "normalize" /\ pc = "start"
  /\ IF TransformRaises(input.rows[1])
       THEN pc' = "raised" /\ raised' = "ValueError"
            /\ product_data' = product_data
       ELSE pc' = "returned" /\ raised' = raised
            /\ product_data' = transform_row_to_product(input.rows[1])
  /\ UNCHANGED <<program, input, batch_size, df, i, batch_df, k, stats,
                 response, ok, posted, batches, started, outcome>>
  /\ UNCHANGED dbvars

NextNormalize == Normalize

SpecNormalize == InitNormalize /\ [][NextNormalize]_vars

\* ====================================================================
\* Properties
\* ====================================================================
Rest == program = "rest"

\* Number of session.post calls made for row p.
PostCalls(p) == Cardinality({j \in 1..Len(posted) : posted[j].row = p})

\* Whether the sink accepted the (first) delivery of row p.
Accepted(p) == \E j \in 1..Len(posted) : posted[j].row = p /\ posted[j].ok

OutcomeCount(S) == Cardinality({j \in 1..Len(outcome) : outcome[j] \in S})

\* What a row ends with, from that row's cells and the sink's answer to that
\* row alone.
OwnOutcome(p) ==
  IF IsnaRaises(RowGet(df[p], "Tags")) THEN "error"
  ELSE IF safe_get_str(df[p], "Title", "") = "" THEN "skipped"
  ELSE IF Accepted(p) THEN "posted"
  ELSE "failed"

\* C1: pipeline isolation.  Every row that has finished ended with the
\* outcome its own cells and its own delivery result determine, whatever
\* happened to the other rows, and a completed run has processed every row
\* and reports total_products = number of rows.
C1_Isolation ==
  Rest =>
    /\ \A j \in 1..Len(outcome) : outcome[j] = OwnOutcome(started[j])
    /\ pc = "done" =>
         /\ Len(outcome) = Len(df)
         /\ stats.total_products = Len(df)
         /\ \A p \in 1..Len(df) :
              Truthy(safe_get_str(df[p], "Title", ""))
                /\ ~IsnaRaises(RowGet(df[p], "Tags")) => PostCalls(p) = 1

\* C1 witness: a finished run in which the delivery of a middle row failed
\* while the rows before and after it were delivered.
C1_Witness ==
  /\ Rest /\ pc = "done" /\ Len(df) >= 3
  /\ outcome[1] = "posted" /\ outcome[2] = "failed"
  /\ outcome[Len(df)] = "posted"
  /\ stats.total_products = Len(df)

\* C2: required-field gate.  No delivery call is ever made for a row whose
\* title is empty after normalization (RestApiBasedScript.py), and script.py
\* never executes an INSERT for a row whose title cell is blank or "".
C2_GateBlocksDelivery ==
  /\ Rest => \A j \in 1..Len(posted) :
        transform_row_to_product(df[posted[j].row]).title /= ""
  /\ program = "script" => \A j \in 1..Len(executed) :
        /\ HasCol(df[executed[j]], "title")
        /\ df[executed[j]]["title"] \notin {NaN, Str("")}

\* C2 witness: a finished upload with an empty-title row and a delivered row.
C2_Witness ==
  /\ Rest /\ pc = "done"
  /\ \E p \in 1..Len(df) :
       transform_row_to_product(df[p]).title = "" /\ PostCalls(p) = 0
  /\ Len(posted) >= 1

C4_DeliveredOnce ==
  Rest =>
    /\ \A p \in 1..Len(df) : PostCalls(p) <= 1
    /\ \A j \in 1..Len(outcome) :
         PostCalls(started[j]) =
           IF outcome[j] \in {"posted", "failed"} THEN 1 ELSE 0
    /\ Len(posted) <= Len(started)

\* C4 witness: a finished run in which a delivery failed and was not retried.
C4_Witness ==
  /\ Rest /\ pc = "done"
  /\ \E j \in 1..Len(posted) : ~posted[j].ok /\ PostCalls(posted[j].row) = 1
  /\ \E j \in 1..Len(posted) : posted[j].ok

\* Sum of the sizes of the logged batches.
RECURSIVE SizeSum(_, _)
SizeSum(b, n) == IF n = 0 THEN 0 ELSE b[n].size + SizeSum(b, n - 1)

\* C5: batches are contiguous, numbered in ascending order, hold at most
\* batch_size rows and all but the last are full; rows start in input order,
\* each once, and a row starts only when every earlier row has finished; a
\* completed run has processed every row exactly once.
C5_BatchOrder ==
  Rest =>
    /\ \A j \in 1..Len(batches) :
         /\ batches[j].no = j
         /\ batches[j].size >= 1 /\ batches[j].size <= batch_size
         /\ j < Len(batches) => batches[j].size = batch_size
    /\ \A j \in 1..Len(batch_df) :
         batch_df[j] = (Len(batches) - 1) * batch_size + j
    /\ \A j \in 1..Len(started) : started[j] = j
    /\ Len(started) <= SizeSum(batches, Len(batches))
    /\ Len(outcome) <= Len(started) /\ Len(started) <= Len(outcome) + 1
    /\ pc = "row" => Len(outcome) = Len(started)
    /\ pc \in {"report", "done"} =>
         /\ SizeSum(batches, Len(batches)) = Len(df)
         /\ Len(started) = Len(df) /\ Len(outcome) = Len(df)

\* C5 witness: a finished run of several batches whose last batch is short.
C5_Witness ==
  /\ Rest /\ pc = "done" /\ batch_size >= 2
  /\ Len(batches) >= 2
  /\ batches[Len(batches)].size < batch_size
  /\ batches[1].size = batch_size

\* C6: post_product reports success exactly for HTTP 200 and 201; any other
\* status, a timeout, a network failure or any other exception gives False,
\* never reaches the row's exception handler, and a run that made a delivery
\* call never ends with an exception.
C6_PostProductResult ==
  Rest =>
    /\ pc = "count" =>
         (ok <=> (response.kind = "http" /\ response.status \in {200, 201}))
    /\ pc = "except" => response = NoResponse
    /\ posted /= <<>> => raised = ""
    /\ \A j \in 1..Len(outcome) :
         outcome[j] = "error" => PostCalls(started[j]) = 0

\* C6 witness: a delivery that timed out is counted as a failed delivery and
\* the run goes on to completion.
C6_Witness ==
  /\ Rest /\ pc = "count" /\ response = Exc("Timeout") /\ ~ok
  /\ Len(outcome) >= 1

\* C7 (as stated): at the end of a run the errors list holds one entry for
\* every failed row, rows whose delivery the sink rejected included, in
\* processing order.
C7_ErrorsListComplete ==
  Rest /\ pc = "done" =>
    /\ Len(stats.errors) = OutcomeCount({"failed", "error"})
    /\ \A a, b \in 1..Len(stats.errors) :
         a < b => stats.errors[a] < stats.errors[b]

\* C8 (as stated): a run over a readable sheet with zero rows completes
\* normally with total, delivered and failed all 0 and raises nothing.
C8_EmptyRunGuarded ==
  Rest /\ input.readable /\ Len(input.rows) = 0 =>
    /\ raised = ""
    /\ pc /= "raised"
    /\ stats.total_products = 0 /\ stats.successful_uploads = 0
    /\ stats.failed_uploads = 0

\* Fatal inputs: the sheet cannot be read, or (new_script.py) the sheet lacks
\* the required sku source column.
FatalInput ==
  \/ program \in {"rest", "new_script"} /\ ~input.readable
  \/ /\ program = "new_script" /\ input.readable
     /\ \E p \in 1..Len(input.rows) : ~HasCol(input.rows[p], sku_source_column)

NothingDelivered ==
  posted = <<>> /\ executed = <<>> /\ txn = {} /\ committed = {}

GoodRows == {p \in Range(executed) : ~Rejected(input, p)}

Normalizing == program = "normalize"

TheRow == input.rows[1]

CanonicalFields ==
  {"title", "description", "category", "subcategory", "price",
   "discountPercentage", "rating", "stock", "brand", "sku", "weight",
   "warrantyInformation", "shippingInformation", "availabilityStatus",
   "returnPolicy", "minimumOrderQuantity", "thumbnail", "version",
   "dimensions", "tags", "reviews", "images", "colorOptions", "attachments",
   "meta"}

\* The row without column f.
Without(row, f) == [g \in (DOMAIN row) \ {f} |-> row[g]]

\* C11 (as stated): transform_row_to_product never raises, whatever the cells
\* of the row are, the record it returns has every canonical field, and a row
\* with a blank cell gives the same record as the row without that column.
C11_NormalizeTotal ==
  Normalizing =>
    /\ pc /= "raised"
    /\ pc = "returned" =>
         /\ DOMAIN product_data = CanonicalFields
         /\ \A f \in DOMAIN TheRow :
              TheRow[f] = NaN =>
                product_data = transform_row_to_product(Without(TheRow, f))

\* The declared defaults of the fields.
DefaultProduct ==
  [title |-> "", description |-> "", category |-> "", subcategory |-> "",
   price |-> 0, discountPercentage |-> 0, rating |-> 0, stock |-> 0,
   brand |-> "", sku |-> "", weight |-> 0, warrantyInformation |-> "",
   shippingInformation |-> "", availabilityStatus |-> "In Stock",
   returnPolicy |-> "", minimumOrderQuantity |-> 1, thumbnail |-> "",
   version |-> "1.0", dimensions |-> [width |-> 0, height |-> 0, depth |-> 0],
   tags |-> <<>>, reviews |-> <<>>, images |-> <<>>, colorOptions |-> <<>>,
   attachments |-> <<>>, meta |-> [barcode |-> "", qrCode |-> ""]]

\* The row has at most one column, and its cell is blank: NaN or ''.
OnlyBlank(row) ==
  /\ Cardinality(DOMAIN row) <= 1
  /\ \A f \in DOMAIN row : row[f] = NaN \/ row[f] = Str("")

\* C12 (as stated): for every field, an absent column, a NaN cell and an
\* empty-string cell all give exactly the field's declared default.
C12_BlankGivesDefault ==
  Normalizing /\ pc = "returned" /\ OnlyBlank(TheRow) =>
    product_data = DefaultProduct

\* float() of one sub-key of a dimensions dict taken by itself, 0 when the key
\* is missing or its value is not a number.
OwnDimension(dv, key) ==
  IF key \notin DOMAIN dv.d THEN 0
  ELSE IF dv.d[key].t = "int" THEN dv.d[key].n
  ELSE IF dv.d[key] = Str("7") THEN 7
  ELSE 0

\* C13 (as stated): each of width, height and depth is coerced on its own; a
\* missing or invalid sub-key gives 0 for that key and leaves the other two
\* as they are.
C13_DimensionsPerKey ==
  Normalizing /\ pc = "returned" /\ DOMAIN TheRow = {"Dimensions"}
    /\ TheRow["Dimensions"].t = "dict" =>
    \A key \in {"width", "height", "depth"} :
      product_data.dimensions[key] = OwnDimension(TheRow["Dimensions"], key)

\* A category or sku value is available: the cell is there and is not blank.
Available(c) == c.t = "str" /\ c.s /= ""

\* C14 (as stated): one fallback image is synthesized exactly when the parsed
\* image list is empty and category and sku are both available; with an
\* absent or blank category or sku an empty image list stays empty, and a
\* non-empty image list gets no fallback entry.
C14_ImagesFallback ==
  Normalizing /\ pc = "returned" /\ TheRow \in ImageRows =>
    LET im == RowGet(TheRow, "Images")
        ca == RowGet(TheRow, "Category")
        sk == RowGet(TheRow, "Sku")
    IN IF im = Str("u1.png")
         THEN product_data.images = <<[imageUrl |-> "u1.png"]>>
         ELSE IF Available(ca) /\ Available(sk)
           THEN product_data.images =
                  <<[imageUrl |-> ImageBase
                       \o (IF ca.s = "Wall Lamp" THEN "Wall%20Lamp" ELSE ca.s)
                       \o "/" \o sk.s \o ".png"]>>
           ELSE product_data.images = <<>>

\* C15: the outcome counters account for every processed row: each finished
\* row has added one to exactly one of successful_uploads and failed_uploads
\* (failed_uploads also counts the skipped rows), a row in progress has added
\* nothing yet, and a completed run's counters sum to total_products.
C15_CountersSumToProcessed ==
  Rest =>
    /\ stats.successful_uploads + stats.failed_uploads = Len(outcome)
    /\ Len(outcome) <= Len(df)
    /\ pc \in {"gate", "post", "count", "except"} =>
         Len(started) = Len(outcome) + 1
    /\ pc = "done" =>
         stats.successful_uploads + stats.failed_uploads = stats.total_products

\* C15 witness: a completed run with a delivered, a failed and a skipped row
\* whose counters sum to the number of rows.
C15_Witness ==
  /\ Rest /\ pc = "done"
  /\ OutcomeCount({"posted"}) >= 1 /\ OutcomeCount({"failed"}) >= 1
  /\ OutcomeCount({"skipped"}) >= 1
  /\ stats.successful_uploads + stats.failed_uploads = Len(df)
  /\ Len(df) = stats.total_products

====
